---- MODULE Spec2Model ----
(***************************************************************************)
(* Model of trading_lib/trading_environment.py: TradingStrategy.backtest,  *)
(* Optimizer.__init__, Optimizer.optimize_grid, Optimizer.optimize_bayesian *)
(* (with sample_params), Optimizer.optimize_de with its objective and     *)
(* decode rule, Optimizer.find_best_strategy and StrategyManager.           *)
(*                                                                         *)
(* Floats are modelled exactly: the series of backtest hold rationals      *)
(* n/d (or NaN); parameter values, vector components and scores are        *)
(* fixed-point numbers counted in quarters (q = 4 * value), with NaN and   *)
(* the two infinities as separate tags.                                    *)
(***************************************************************************)
EXTENDS Integers, Sequences, FiniteSets, TLC

VARIABLES
    \* TradingStrategy.backtest
    price, sig, initial_capital, transaction_cost,
    positions, returns, equity_curve, btpc,
    \* Optimizer: the strategy class's param_config, the requested metric,
    \* self.param_grid, and what the strategy class did for each candidate
    param_config, metric, param_grid, opc, memo,
    \* Optimizer.optimize_grid
    gi, records, table, gpc,
    \* Optimizer.optimize_bayesian: the trial budget, the study's trials
    \* and its best trial
    n_trials, trials, best, bpc,
    \* the objective _func of Optimizer.optimize_de: its argument x, the
    \* decoded kwargs, whether the strategy was constructed, what it returned
    de_x, kwargs, evaluated, result, fpc,
    \* Optimizer.optimize_de: the vectors the minimizer evaluated with their
    \* objective values, the minimizer's result, and what is returned
    de_evals, de_result, best_kwargs, best_metric, dpc,
    \* Optimizer.find_best_strategy: its arguments, the position in the
    \* loop over the classes, and its four collections
    strategies, method, si, perf_records, equity_map, strategy_obj_map,
    perf_df, spc,
    \* StrategyManager: the files of its directory, the calls made so far
    \* and what the last load returned
    files, saves, loaded

btvars == <<price, sig, initial_capital, transaction_cost,
            positions, returns, equity_curve, btpc>>

optvars == <<param_config, metric, param_grid, opc, memo>>

gridvars == <<gi, records, table, gpc>>

bayesvars == <<n_trials, trials, best, bpc>>

funcvars == <<de_x, kwargs, evaluated, result, fpc>>

devars == <<de_evals, de_result, best_kwargs, best_metric, dpc>>

selvars == <<strategies, method, si, perf_records, equity_map,
             strategy_obj_map, perf_df, spc>>

storevars == <<files, saves, loaded>>

vars == <<btvars, optvars, gridvars, bayesvars, funcvars, devars, selvars,
          storevars>>

\* what a run of one routine leaves alone
NotBacktest == <<optvars, gridvars, bayesvars, funcvars, devars, selvars,
                 storevars>>
NotOptimizer == <<btvars, gridvars, bayesvars, funcvars, devars, selvars,
                  storevars>>
NotGrid == <<btvars, bayesvars, funcvars, devars, selvars, storevars>>
NotBayes == <<btvars, gridvars, funcvars, devars, selvars, storevars>>
NotFunc == <<btvars, gridvars, bayesvars, devars, selvars, storevars>>
NotDE == <<btvars, gridvars, bayesvars, funcvars, selvars, storevars>>
NotSelect == <<btvars, gridvars, bayesvars, funcvars, devars, storevars>>
NotStore == <<btvars, optvars, gridvars, bayesvars, funcvars, devars,
              selvars>>

\* the parts of the state a run does not use stay as constructed
IdleBacktest ==
    /\ price = <<>> /\ sig = <<>>
    /\ initial_capital = [nan |-> FALSE, n |-> 10000, d |-> 1]
    /\ transaction_cost = [nan |-> FALSE, n |-> 0, d |-> 1]
    /\ positions = <<>> /\ returns = <<>> /\ equity_curve = <<>>
    /\ btpc = "idle"

IdleOptimizer ==
    /\ param_config = <<>> /\ metric = "Sharpe" /\ param_grid = <<>>
    /\ opc = "idle" /\ memo = {}

IdleGrid == gi = 0 /\ records = <<>> /\ table = <<>> /\ gpc = "idle"

IdleBayes == n_trials = 0 /\ trials = <<>> /\ best = 0 /\ bpc = "idle"

IdleFunc ==
    /\ de_x = <<>> /\ kwargs = <<>> /\ evaluated = FALSE
    /\ result = [t |-> "none", v |-> [t |-> "nan", q |-> 0]]
    /\ fpc = "idle"

IdleDE ==
    /\ de_evals = {}
    /\ de_result = [t |-> "none", x |-> <<>>, fun |-> [t |-> "nan", q |-> 0]]
    /\ best_kwargs = <<>>
    /\ best_metric = [t |-> "nan", q |-> 0]
    /\ dpc = "idle"

IdleSelect ==
    /\ strategies = <<>> /\ method = "grid" /\ si = 0
    /\ perf_records = <<>> /\ equity_map = {} /\ strategy_obj_map = {}
    /\ perf_df = <<>> /\ spc = "idle"

IdleStore == files = {} /\ saves = <<>> /\ loaded = [t |-> "none"]

-----------------------------------------------------------------------------
(* Bounds *)

\* the penalty 1e6 of the objective of optimize_de
PENALTY == 1000000

\* largest trial budget of optimize_bayesian
MaxTrials == 2

\* longest price / signal series
MaxLen == 3

\* upper bound of the integer parameter of the one-parameter configurations
MaxHigh == 3

-----------------------------------------------------------------------------
(* Exact arithmetic on series elements: a rational n/d in lowest terms     *)
(* with d > 0, or NaN (pandas' missing value).                             *)

RECURSIVE GCD(_, _)
GCD(a, b) == IF b = 0 THEN a ELSE GCD(b, a % b)

Abs(x) == IF x < 0 THEN -x ELSE x

NaN == [nan |-> TRUE, n |-> 0, d |-> 1]

Rat(n, d) ==
    LET s == IF d < 0 THEN -1 ELSE 1
        g == GCD(Abs(n), Abs(d))
    IN  [nan |-> FALSE, n |-> (s * n) \div g, d |-> (s * d) \div g]

RInt(i) == [nan |-> FALSE, n |-> i, d |-> 1]

RAdd(a, b) ==
    IF a.nan \/ b.nan THEN NaN
    ELSE LET g == GCD(a.d, b.d)
         IN  Rat(a.n * (b.d \div g) + b.n * (a.d \div g), (a.d \div g) * b.d)

RNeg(a) == IF a.nan THEN NaN ELSE [nan |-> FALSE, n |-> -a.n, d |-> a.d]

RSub(a, b) == RAdd(a, RNeg(b))

\* cross-cancelling product, so that intermediate values stay small
RMul(a, b) ==
    IF a.nan \/ b.nan THEN NaN
    ELSE LET g1 == GCD(Abs(a.n), b.d)
             g2 == GCD(Abs(b.n), a.d)
         IN  Rat((a.n \div g1) * (b.n \div g2), (a.d \div g2) * (b.d \div g1))

RDiv(a, b) ==
    IF a.nan \/ b.nan THEN NaN
    ELSE RMul(a, Rat(b.d, b.n))

RAbs(a) == IF a.nan THEN NaN ELSE [nan |-> FALSE, n |-> Abs(a.n), d |-> a.d]

-----------------------------------------------------------------------------
(* pandas Series operations used by backtest (element-wise, index-aligned) *)

\* Series.shift(1): every value moves one period later, the first is missing
shift(s) == [t \in 1..Len(s) |-> IF t = 1 THEN NaN ELSE s[t - 1]]

\* Series.fillna(0)
fillna(s) == [t \in 1..Len(s) |-> IF s[t].nan THEN RInt(0) ELSE s[t]]

\* Series.pct_change(): s[t]/s[t-1] - 1, the first is missing
pct_change(s) ==
    [t \in 1..Len(s) |->
        IF t = 1 THEN NaN ELSE RSub(RDiv(s[t], s[t - 1]), RInt(1))]

\* Series.diff(): s[t] - s[t-1], the first is missing
diff(s) == [t \in 1..Len(s) |-> IF t = 1 THEN NaN ELSE RSub(s[t], s[t - 1])]

\* Series.abs()
abs(s) == [t \in 1..Len(s) |-> RAbs(s[t])]

\* Series * Series, Series - Series, Series * scalar, scalar + Series
SerMul(a, b) == [t \in 1..Len(a) |-> RMul(a[t], b[t])]
SerSub(a, b) == [t \in 1..Len(a) |-> RSub(a[t], b[t])]
SerScale(a, c) == [t \in 1..Len(a) |-> RMul(a[t], c)]
SerPlus(c, a) == [t \in 1..Len(a) |-> RAdd(c, a[t])]

\* Series.cumprod()
RECURSIVE cumprod(_)
cumprod(s) ==
    IF Len(s) = 0 THEN <<>>
    ELSE LET head == cumprod(SubSeq(s, 1, Len(s) - 1))
         IN  Append(head,
                    IF Len(head) = 0 THEN s[Len(s)]
                    ELSE RMul(head[Len(head)], s[Len(s)]))

-----------------------------------------------------------------------------
(* TradingStrategy.backtest *)

\* a position taken in the same period as its signal (no lag)
pos_nolag(s) == fillna(s)

\* pos = sig.shift(1).fillna(0)
pos(s) == fillna(shift(s))

\* ret = price.pct_change().fillna(0)
ret(p) == fillna(pct_change(p))

\* strat_ret = pos * ret - sig.diff().abs().fillna(0) * transaction_cost
strat_ret(p, s, cost) ==
    SerSub(SerMul(pos(s), ret(p)), SerScale(fillna(abs(diff(s))), cost))

\* equity = initial_capital * (1 + strat_ret).cumprod()
equity(p, s, cap, cost) ==
    SerScale(cumprod(SerPlus(RInt(1), strat_ret(p, s, cost))), cap)

\* self.positions = sig
recorded_positions(s) == s

\* the inputs of a backtest: a price column, the signals generate_signals
\* returns for it, the initial capital and the transaction cost
Prices == {RInt(100), RInt(110), RInt(121)}
Signals == {RInt(-1), RInt(0), RInt(1)}
Capitals == {RInt(100), RInt(10000)}
Costs == {RInt(0), Rat(1, 10)}

SeriesOf(S, len) == [1..len -> S]

InitBacktest ==
    /\ \E len \in 1..MaxLen :
          /\ price \in SeriesOf(Prices, len)
          /\ sig \in SeriesOf(Signals, len)
    /\ initial_capital \in Capitals
    /\ transaction_cost \in Costs
    /\ positions = <<>>
    /\ returns = <<>>
    /\ equity_curve = <<>>
    /\ btpc = "new"
    /\ IdleOptimizer
    /\ IdleGrid
    /\ IdleBayes
    /\ IdleDE /\ IdleSelect /\ IdleStore
    /\ IdleFunc

backtest ==
    /\ btpc = "new"
    /\ positions' = recorded_positions(sig)
    /\ returns' = strat_ret(price, sig, transaction_cost)
    /\ equity_curve' = equity(price, sig, initial_capital, transaction_cost)
    /\ btpc' = "done"
    /\ UNCHANGED <<price, sig, initial_capital, transaction_cost>>
    /\ UNCHANGED NotBacktest

NextBacktest == backtest

SpecBacktest == InitBacktest /\ [][NextBacktest]_vars

-----------------------------------------------------------------------------
(* Claims about backtest *)

\* C1: after backtest the recorded positions are the signal lagged by one
\* period: position[0] = 0 and position[t] = signal[t-1] for t >= 1 (so
\* prices [100, 110, 121] with signal [1, 1, 1] record positions [0, 1, 1]).
C1_PositionsLagSignal ==
    btpc = "done" =>
        /\ Len(positions) = Len(sig)
        /\ \A t \in 1..Len(sig) :
              positions[t] = IF t = 1 THEN RInt(0) ELSE sig[t - 1]

\* the product of (1 + r[k]) over k <= t
RECURSIVE Compound(_, _)
Compound(r, t) ==
    IF t = 0 THEN RInt(1)
    ELSE RMul(Compound(r, t - 1), RAdd(RInt(1), r[t]))

\* C2: periodReturn[0] = 0, periodReturn[t] = signal[t-1] *
\* (price[t]/price[t-1] - 1) - transactionCost * |signal[t] - signal[t-1]|
\* for t >= 1, equity[t] = initialCapital * product over k <= t of
\* (1 + periodReturn[k]), and so equity[0] = initialCapital.
C2_ReturnsAndEquity ==
    btpc = "done" =>
        /\ Len(returns) = Len(price)
        /\ Len(equity_curve) = Len(price)
        /\ returns[1] = RInt(0)
        /\ \A t \in 2..Len(price) :
              returns[t] =
                  RSub(RMul(sig[t - 1],
                            RSub(RDiv(price[t], price[t - 1]), RInt(1))),
                       RMul(transaction_cost, RAbs(RSub(sig[t], sig[t - 1]))))
        /\ \A t \in 1..Len(price) :
              equity_curve[t] = RMul(initial_capital, Compound(returns, t))
        /\ equity_curve[1] = initial_capital

\* a finished backtest over three periods in which a position is held over
\* a price move, the signal changes and the change costs something
C2_Witness ==
    /\ btpc = "done"
    /\ Len(price) = 3
    /\ transaction_cost # RInt(0)
    /\ sig[1] # RInt(0)
    /\ sig[2] # sig[1]
    /\ price[2] # price[1]
    /\ price[3] # price[2]

-----------------------------------------------------------------------------
(* Parameter values.  A value is a Python int, float, bool or str; q is    *)
(* four times the number (True is 1, False is 0), s the string.            *)

IntV(i) == [k |-> "int", q |-> 4 * i, s |-> ""]
FloatV(q) == [k |-> "float", q |-> q, s |-> ""]
BoolV(b) == [k |-> "bool", q |-> IF b THEN 4 ELSE 0, s |-> ""]
StrV(s) == [k |-> "str", q |-> 0, s |-> s]

\* isinstance(v, (int, float)): bool is a subclass of int
IsNumber(v) == v.k \in {"int", "float", "bool"}

\* isinstance(v, int)
IsInt(v) == v.k \in {"int", "bool"}

\* Python's ==: numbers compare by value across int, float and bool
PyEq(a, b) ==
    IF IsNumber(a) /\ IsNumber(b) THEN a.q = b.q
    ELSE a.k = "str" /\ b.k = "str" /\ a.s = b.s

-----------------------------------------------------------------------------
(* param_config: an ordered mapping name -> spec.  A spec has `choices`,   *)
(* or a `type` with `bounds` = (low, high), an optional `step` (0 here:   *)
(* the key is absent) and `n`.  has_choices, has_type and has_bounds say   *)
(* which keys the entry has.                                               *)

ChoiceSpec(name, cs) ==
    [name |-> name, has_choices |-> TRUE, choices |-> cs, has_type |-> FALSE,
     type |-> "", has_bounds |-> FALSE, low |-> 0, high |-> 0, step |-> 0,
     n |-> 1]

TypeSpec(name, t, low, high, step, n) ==
    [name |-> name, has_choices |-> FALSE, choices |-> <<>>, has_type |-> TRUE,
     type |-> t, has_bounds |-> TRUE, low |-> low, high |-> high,
     step |-> step, n |-> n]

\* an entry with a `type` and no `bounds`
TypeNoBounds(name, t) ==
    [name |-> name, has_choices |-> FALSE, choices |-> <<>>, has_type |-> TRUE,
     type |-> t, has_bounds |-> FALSE, low |-> 0, high |-> 0, step |-> 0,
     n |-> 1]

\* an entry with neither `choices` nor `type`
NoSpec(name) ==
    [name |-> name, has_choices |-> FALSE, choices |-> <<>>, has_type |-> FALSE,
     type |-> "", has_bounds |-> FALSE, low |-> 0, high |-> 0, step |-> 0,
     n |-> 1]

\* the configurations of the strategy classes that are optimized
Configs ==
    { <<>>,
      << TypeSpec("window", "int", 1, MaxHigh, 0, 1) >>,
      << TypeSpec("window", "int", 2, 6, 2, 1),
         ChoiceSpec("kind", << StrV("sma"), StrV("ema") >>) >>,
      << ChoiceSpec("window", << IntV(1), IntV(3) >>) >>,
      << ChoiceSpec("flag", << BoolV(TRUE), BoolV(FALSE) >>) >>,
      << TypeSpec("alpha", "float", 0, 1, 0, 3) >>,
      \* 'type': 'int' (the string, not the class int)
      << TypeSpec("window", "str", 1, 2, 0, 2) >>,
      << TypeNoBounds("window", "int") >>,
      << NoSpec("window") >> }

\* the metric names a caller may pass; summary() has the first three
SummaryKeys == {"Sharpe", "Total Return", "Max Drawdown"}
Metrics == {"Sharpe", "Total Return", "Max Drawdown", "SHARPE"}

-----------------------------------------------------------------------------
(* Scores and metric values: a finite float (q quarters), NaN, +inf, -inf  *)

Fin(q) == [t |-> "fin", q |-> q]
NaNScore == [t |-> "nan", q |-> 0]
PosInf == [t |-> "inf", q |-> 0]
NegInf == [t |-> "ninf", q |-> 0]

\* what constructing, backtesting and summarising a candidate does: it
\* raises, or gives the requested metric's value (NaN when undefined)
Raised == [t |-> "raise", m |-> NaNScore]
Ok(m) == [t |-> "ok", m |-> m]
MetricValues == {Fin(-4), Fin(4), NaNScore}
Outcomes == {Raised} \cup {Ok(m) : m \in MetricValues}

\* the strategy class is deterministic: a candidate evaluated before does
\* what it did before
Known(c) == \E e \in memo : e.c = c
OutcomeOf(c) == (CHOOSE e \in memo : e.c = c).o
MayDo(c) == IF Known(c) THEN {OutcomeOf(c)} ELSE Outcomes
Remember(c, o) == memo \cup {[c |-> c, o |-> o]}

-----------------------------------------------------------------------------
(* Optimizer.__init__ *)

\* list(range(low, high, step)): the upper bound left out
range_exclusive(low, high, step) ==
    IF high <= low THEN <<>>
    ELSE [i \in 1..((high - 1 - low) \div step + 1) |->
             IntV(low + (i - 1) * step)]

\* list(range(low, high + 1, step))
range(low, high, step) ==
    IF high < low THEN <<>>
    ELSE [i \in 1..((high - low) \div step + 1) |-> IntV(low + (i - 1) * step)]

\* list(np.linspace(low, high, n))
linspace(low, high, n) ==
    IF n = 1 THEN << FloatV(4 * low) >>
    ELSE [i \in 1..n |->
             FloatV(4 * low + ((i - 1) * 4 * (high - low)) \div (n - 1))]

\* spec['type'] of an entry without `type`, and spec['bounds'] of an entry
\* without `bounds`, raise KeyError
SpecRaises(spec) ==
    ~spec.has_choices /\ (~spec.has_type \/ ~spec.has_bounds)

\* spec.get('step', 1)
step_or_1(spec) == IF spec.step = 0 THEN 1 ELSE spec.step

\* the grid of one entry
grid_of(spec) ==
    IF spec.has_choices THEN spec.choices
    ELSE IF spec.type = "int" THEN range(spec.low, spec.high, step_or_1(spec))
    ELSE linspace(spec.low, spec.high, spec.n)

build_grid(config) == [i \in 1..Len(config) |-> grid_of(config[i])]

Optimizer_init ==
    /\ opc = "new"
    /\ IF \E i \in 1..Len(param_config) : SpecRaises(param_config[i])
       THEN opc' = "config_error" /\ UNCHANGED param_grid
       ELSE opc' = "built" /\ param_grid' = build_grid(param_config)
    /\ UNCHANGED <<param_config, metric, memo>>

InitOptimizer ==
    /\ param_config \in Configs
    /\ metric \in Metrics
    /\ param_grid = <<>>
    /\ opc = "new"
    /\ memo = {}

-----------------------------------------------------------------------------
(* Optimizer.optimize_grid *)

\* itertools.product(*grid): the number of candidates, and the j-th of
\* them (j from 1), the last key varying fastest
RECURSIVE SizeFrom(_, _)
SizeFrom(grid, i) ==
    IF i > Len(grid) THEN 1 ELSE Len(grid[i]) * SizeFrom(grid, i + 1)

product_size(grid) == SizeFrom(grid, 1)

product_at(grid, j) ==
    [i \in 1..Len(grid) |->
        LET vals == grid[i]
            at == ((j - 1) \div SizeFrom(grid, i + 1)) % Len(vals)
        IN  vals[at + 1] ]

\* records after the try block of one candidate: a row on success, nothing
\* on an exception
records_keep_failed(recs, j, c, o) == Append(recs, [i |-> j, params |-> c, m |-> o.m])

records_after(recs, j, c, o) ==
    IF o.t = "ok" THEN Append(recs, [i |-> j, params |-> c, m |-> o.m])
    ELSE recs

\* sort_values(by=metric, ascending=False): larger values first, NaN last
Before(a, b) ==
    \/ a.m.t = "fin" /\ b.m.t = "nan"
    \/ a.m.t = "fin" /\ b.m.t = "fin" /\ a.m.q > b.m.q

\* ... with the default kind='quicksort', which is not stable: rows with
\* equal values come out in any order
RECURSIVE SortedTables(_)
SortedTables(rows) ==
    IF rows = {} THEN {<<>>}
    ELSE UNION { {<<r>> \o t : t \in SortedTables(rows \ {r})} :
                 r \in {x \in rows : \A y \in rows : ~Before(y, x)} }

sort_values(recs) == SortedTables({recs[i] : i \in 1..Len(recs)})

grid_start ==
    /\ opc = "built" /\ gpc = "new"
    /\ gpc' = "loop" /\ gi' = 1
    /\ UNCHANGED <<records, table, optvars>>

\* one pass of the loop whose try block succeeds
grid_candidate_ok ==
    /\ gpc = "loop" /\ gi <= product_size(param_grid)
    /\ LET c == product_at(param_grid, gi) IN
       \E o \in MayDo(c) :
          /\ o.t = "ok"
          /\ records' = records_after(records, gi, c, o)
          /\ memo' = Remember(c, o)
    /\ gi' = gi + 1
    /\ UNCHANGED <<table, gpc, param_config, metric, param_grid, opc>>

\* one pass of the loop whose try block raises: logged, skipped
grid_candidate_raises ==
    /\ gpc = "loop" /\ gi <= product_size(param_grid)
    /\ LET c == product_at(param_grid, gi) IN
       \E o \in MayDo(c) :
          /\ o.t = "raise"
          /\ records' = records_after(records, gi, c, o)
          /\ memo' = Remember(c, o)
    /\ gi' = gi + 1
    /\ UNCHANGED <<table, gpc, param_config, metric, param_grid, opc>>

\* if not records: raise ValueError
grid_no_records ==
    /\ gpc = "loop" /\ gi > product_size(param_grid)
    /\ records = <<>>
    /\ gpc' = "raised"
    /\ UNCHANGED <<gi, records, table, optvars>>

\* sort_values raises KeyError for a metric that is no column
grid_unknown_metric ==
    /\ gpc = "loop" /\ gi > product_size(param_grid)
    /\ records # <<>>
    /\ metric \notin SummaryKeys
    /\ gpc' = "raised"
    /\ UNCHANGED <<gi, records, table, optvars>>

\* return pd.DataFrame(records).sort_values(...).reset_index(drop=True)
grid_return ==
    /\ gpc = "loop" /\ gi > product_size(param_grid)
    /\ records # <<>>
    /\ metric \in SummaryKeys
    /\ table' \in sort_values(records)
    /\ gpc' = "returned"
    /\ UNCHANGED <<gi, records, optvars>>

InitGrid ==
    /\ InitOptimizer
    /\ gi = 0 /\ records = <<>> /\ table = <<>> /\ gpc = "new"
    /\ IdleBacktest
    /\ IdleBayes
    /\ IdleFunc
    /\ IdleDE /\ IdleSelect /\ IdleStore

NextGrid ==
    \/ Optimizer_init /\ UNCHANGED NotOptimizer
    \/ grid_start /\ UNCHANGED NotGrid
    \/ grid_candidate_ok /\ UNCHANGED NotGrid
    \/ grid_candidate_raises /\ UNCHANGED NotGrid
    \/ grid_no_records /\ UNCHANGED NotGrid
    \/ grid_unknown_metric /\ UNCHANGED NotGrid
    \/ grid_return /\ UNCHANGED NotGrid

SpecGrid == InitGrid /\ [][NextGrid]_vars

-----------------------------------------------------------------------------
(* Claims about optimize_grid *)

\* the rows of the returned table that hold candidate c
RowsOf(c) == {r \in 1..Len(table) : table[r].params = c}

\* C3: the table returned for a grid of n candidates has at most n rows:
\* exactly one row for each candidate whose construction and evaluation
\* succeeded, none for a candidate that raised, every parameter value of a
\* row one of that parameter's grid values, and n rows when none raised.
C3_GridRows ==
    gpc = "returned" =>
        LET n == product_size(param_grid) IN
        /\ Len(table) <= n
        /\ \A j \in 1..n :
              LET c == product_at(param_grid, j) IN
              Cardinality(RowsOf(c)) = IF OutcomeOf(c).t = "ok" THEN 1 ELSE 0
        /\ \A r \in 1..Len(table) :
              /\ Len(table[r].params) = Len(param_config)
              /\ \A i \in 1..Len(param_config) :
                    \E v \in 1..Len(param_grid[i]) :
                        table[r].params[i] = param_grid[i][v]
        /\ (\A j \in 1..n : OutcomeOf(product_at(param_grid, j)).t = "ok")
              => Len(table) = n

\* a table returned for a grid of at least three candidates of which one
\* raised and two succeeded
C3_Witness ==
    /\ gpc = "returned"
    /\ product_size(param_grid) >= 3
    /\ Len(table) >= 2
    /\ \E j \in 1..product_size(param_grid) :
          OutcomeOf(product_at(param_grid, j)).t = "raise"

\* C4: the returned table is in descending order of the metric, candidates
\* with equal metric values are in enumeration order, and so row 0 is the
\* earliest-enumerated candidate among those with the maximal metric.
C4_GridStableDescending ==
    gpc = "returned" =>
        /\ \A r1, r2 \in 1..Len(table) :
              r1 < r2 => ~Before(table[r2], table[r1])
        /\ \A r1, r2 \in 1..Len(table) :
              (r1 < r2 /\ table[r1].m = table[r2].m /\ table[r1].m.t = "fin")
                  => table[r1].i < table[r2].i
        /\ \A r \in 1..Len(table) :
              (table[r].m = table[1].m /\ table[1].m.t = "fin")
                  => table[1].i <= table[r].i

-----------------------------------------------------------------------------
(* Optimizer.sample_params and Optimizer.optimize_bayesian *)

\* sample_params raises TypeError for an entry without `choices` whose
\* `type` is neither int nor float
sample_raises(config) ==
    \E i \in 1..Len(config) :
        ~config[i].has_choices /\ config[i].type \notin {"int", "float"}

\* the values trial.suggest_categorical / suggest_int / suggest_float may
\* propose for one entry
suggestions(spec) ==
    IF spec.has_choices THEN {spec.choices[i] : i \in 1..Len(spec.choices)}
    ELSE IF spec.type = "int"
    THEN {IntV(v) : v \in {w \in spec.low..spec.high :
                              (w - spec.low) % step_or_1(spec) = 0}}
    ELSE IF spec.step # 0
    THEN {FloatV(4 * v) : v \in {w \in spec.low..spec.high :
                                    (w - spec.low) % spec.step = 0}}
    ELSE {FloatV(q) : q \in (4 * spec.low)..(4 * spec.high)}

\* the candidates sample_params may return
sample_params(config) ==
    {c \in [1..Len(config) -> UNION {suggestions(config[i]) : i \in 1..Len(config)}] :
        \A i \in 1..Len(config) : c[i] \in suggestions(config[i])}

\* np.isfinite(score)
isfinite(m) == m.t = "fin"

\* summary[metric] raises KeyError for a name summary() does not have
metric_known(name) == name \in SummaryKeys

\* the value the objective returns for what the candidate did
objective(o, name) ==
    IF o.t = "raise" \/ ~metric_known(name) THEN NegInf
    ELSE IF ~isfinite(o.m) THEN NegInf
    ELSE o.m

\* trial.set_user_attr("error", ...) happened
objective_error(o, name) == o.t = "raise" \/ ~metric_known(name)

\* metric.lower()
lower(name) ==
    CASE name = "Sharpe" -> "sharpe"
      [] name = "SHARPE" -> "sharpe"
      [] name = "Total Return" -> "total return"
      [] name = "Max Drawdown" -> "max drawdown"
      [] OTHER -> name

\* direction='maximize' whatever the metric
direction_maximize(name) == "maximize"

direction(name) ==
    IF lower(name) \in {"sharpe", "total return"} THEN "maximize" ELSE "minimize"

\* the order of float values, -inf lowest
Rank(m) == IF m.t = "ninf" THEN 0 ELSE IF m.t = "fin" THEN 1 ELSE 2
Less(a, b) ==
    \/ Rank(a) < Rank(b)
    \/ a.t = "fin" /\ b.t = "fin" /\ a.q < b.q

\* study.best_trial: the first trial no other trial beats
best_trial(ts, dir) ==
    LET beats(a, b) == IF dir = "maximize" THEN Less(b.value, a.value)
                       ELSE Less(a.value, b.value)
        top == {i \in 1..Len(ts) : \A j \in 1..Len(ts) : ~beats(ts[j], ts[i])}
    IN  CHOOSE i \in top : \A j \in top : i <= j

trial_record(c, o, name) ==
    [params |-> c, o |-> o, value |-> objective(o, name),
     error |-> objective_error(o, name)]

bayes_start ==
    /\ opc = "built" /\ bpc = "new"
    /\ bpc' = "loop"
    /\ UNCHANGED <<n_trials, trials, best, optvars>>

\* a trial whose sample_params raises: the exception leaves study.optimize
trial_sample_raises ==
    /\ bpc = "loop" /\ Len(trials) < n_trials
    /\ sample_raises(param_config)
    /\ bpc' = "raised"
    /\ UNCHANGED <<n_trials, trials, best, optvars>>

trial(kind) ==
    /\ bpc = "loop" /\ Len(trials) < n_trials
    /\ ~sample_raises(param_config)
    /\ \E c \in sample_params(param_config) :
       \E o \in MayDo(c) :
          /\ kind = IF objective_error(o, metric) THEN "exception"
                    ELSE IF ~isfinite(o.m) THEN "nonfinite" ELSE "scored"
          /\ trials' = Append(trials, trial_record(c, o, metric))
          /\ memo' = Remember(c, o)
    /\ UNCHANGED <<n_trials, best, bpc, param_config, metric, param_grid, opc>>

\* a trial that returns float(score)
trial_scored == trial("scored")

\* a trial whose score is not finite
trial_nonfinite == trial("nonfinite")

\* a trial whose try block raises
trial_exception == trial("exception")

\* best = study.best_trial; return best.params, best.value, study
bayes_return ==
    /\ bpc = "loop" /\ Len(trials) = n_trials
    /\ best' = best_trial(trials, direction(metric))
    /\ bpc' = "returned"
    /\ UNCHANGED <<n_trials, trials, optvars>>

InitBayes ==
    /\ InitOptimizer
    /\ n_trials \in 1..MaxTrials
    /\ trials = <<>> /\ best = 0 /\ bpc = "new"
    /\ IdleBacktest
    /\ IdleGrid
    /\ IdleFunc
    /\ IdleDE /\ IdleSelect /\ IdleStore

NextBayes ==
    \/ Optimizer_init /\ UNCHANGED NotOptimizer
    \/ bayes_start /\ UNCHANGED NotBayes
    \/ trial_sample_raises /\ UNCHANGED NotBayes
    \/ trial_scored /\ UNCHANGED NotBayes
    \/ trial_nonfinite /\ UNCHANGED NotBayes
    \/ trial_exception /\ UNCHANGED NotBayes
    \/ bayes_return /\ UNCHANGED NotBayes

SpecBayes == InitBayes /\ [][NextBayes]_vars

\* the metric names that, case-insensitively, are 'sharpe' or 'total return'
MaximizedMetrics == {"Sharpe", "SHARPE", "Total Return"}

\* C16: optimize_bayesian returns the trial with the highest score when the
\* metric name is, case-insensitively, 'sharpe' or 'total return', and the
\* trial with the lowest score for every other metric name
C16_BayesDirection ==
    bpc = "returned" =>
        IF metric \in MaximizedMetrics
        THEN \A j \in 1..Len(trials) :
                 ~Less(trials[best].value, trials[j].value)
        ELSE \A j \in 1..Len(trials) :
                 ~Less(trials[j].value, trials[best].value)

\* a minimized metric with two trials of different finite scores, the
\* lower one returned
C16_Witness ==
    /\ bpc = "returned"
    /\ metric = "Max Drawdown"
    /\ \E j \in 1..Len(trials) :
          /\ trials[j].value.t = "fin" /\ trials[best].value.t = "fin"
          /\ trials[best].value.q < trials[j].value.q

-----------------------------------------------------------------------------
(* Claims about optimize_bayesian *)

\* C5: for a configuration that Optimizer construction accepted, no trial
\* raises out of the search loop; a trial in which proposing, instantiating,
\* simulating, evaluating or extracting the metric raised has the error
\* recorded and scores -infinity, and so does a trial with a non-finite metric.
C5_NoTrialRaises ==
    opc = "built" =>
        /\ bpc # "raised"
        /\ \A i \in 1..Len(trials) :
              LET t == trials[i] IN
              /\ (t.o.t = "raise" \/ ~metric_known(metric))
                    => (t.error /\ t.value = NegInf)
              /\ (t.o.t = "ok" /\ ~isfinite(t.o.m)) => t.value = NegInf

\* the trial ran to the end and its metric was a finite number
Succeeded(t) == t.o.t = "ok" /\ metric_known(metric) /\ isfinite(t.o.m)

\* C6: the sentinel steers the search away from failed candidates: when at
\* least one trial succeeded with a finite score, the best trial returned is
\* not one that failed or scored non-finite, whichever the direction.
C6_BestNeverFailed ==
    (bpc = "returned" /\ \E i \in 1..Len(trials) : Succeeded(trials[i]))
        => Succeeded(trials[best])

-----------------------------------------------------------------------------
(* Optimizer.optimize_de: the encoding built from param_grid, and the      *)
(* objective _func                                                         *)

\* all(isinstance(v, (int, float)) for v in vals): a numeric parameter
is_numeric(vals) == \A i \in 1..Len(vals) : IsNumber(vals[i])

\* k in cat_map
in_cat_map(vals) == ~is_numeric(vals)

\* min(vals), max(vals), in quarters
min_q(vals) ==
    CHOOSE q \in {vals[i].q : i \in 1..Len(vals)} :
        \A i \in 1..Len(vals) : q <= vals[i].q
max_q(vals) ==
    CHOOSE q \in {vals[i].q : i \in 1..Len(vals)} :
        \A i \in 1..Len(vals) : q >= vals[i].q

\* bounds: (min, max) of a numeric parameter, (0, len(vals) - 1) of a
\* categorical one, in quarters
de_bounds(vals) ==
    IF is_numeric(vals) THEN <<min_q(vals), max_q(vals)>>
    ELSE <<0, 4 * (Len(vals) - 1)>>

\* int_flags
int_flag(vals) ==
    IF is_numeric(vals) THEN \A i \in 1..Len(vals) : IsInt(vals[i]) ELSE TRUE

\* np.isnan(xi)
isnan(xi) == xi.t = "nan"

\* Python's round(xi) of a finite float: to the nearest integer, halves to
\* the even one
round(q) ==
    LET f == q \div 4
        r == q % 4
    IN  IF r < 2 THEN f
        ELSE IF r > 2 THEN f + 1
        ELSE IF f % 2 = 0 THEN f ELSE f + 1

\* float(xi) of an infinity is passed on as it is
InfV(xi) == [k |-> "float", q |-> 0, s |-> xi.t]

\* int(round(xi)) raises OverflowError for an infinity
decode_raises(xi, vals) ==
    xi.t \in {"inf", "ninf"} /\ (in_cat_map(vals) \/ int_flag(vals))

\* kwargs[k] for one component of x
decode(xi, vals) ==
    IF in_cat_map(vals)
    THEN LET idx == round(xi.q)
             top == Len(vals) - 1
             clipped == IF idx < 0 THEN 0 ELSE IF idx > top THEN top ELSE idx
         IN  vals[clipped + 1]
    ELSE IF int_flag(vals) THEN IntV(round(xi.q))
    ELSE IF xi.t = "fin" THEN FloatV(xi.q) ELSE InfV(xi)

decode_all(xs, grid) == [i \in 1..Len(grid) |-> decode(xs[i], grid[i])]

Penalty == Fin(4 * PENALTY)

\* -perf
negate(m) ==
    CASE m.t = "fin" -> Fin(-m.q)
      [] m.t = "inf" -> NegInf
      [] m.t = "ninf" -> PosInf
      [] OTHER -> NaNScore

\* what the try block of _func returns for what the candidate did
func_score(o, name) ==
    IF o.t = "raise" \/ ~metric_known(name) THEN Penalty ELSE negate(o.m)

\* the vectors _func is applied to: every component a point of its bounds
\* (at quarter steps), or NaN, +inf or -inf
components(vals) ==
    LET b == de_bounds(vals)
    IN  {Fin(q) : q \in b[1]..b[2]} \cup {NaNScore, PosInf, NegInf}

RECURSIVE vectors_from(_, _)
vectors_from(grid, i) ==
    IF i > Len(grid) THEN {<<>>}
    ELSE LET rest == vectors_from(grid, i + 1)
         IN  {<<xi>> \o xs : xi \in components(grid[i]), xs \in rest}

vectors(grid) == vectors_from(grid, 1)

\* optimize_de defines _func when there is at least one parameter
func_called(xs) ==
    /\ opc = "built" /\ fpc = "new"
    /\ Len(param_grid) > 0
    /\ de_x' = xs
    /\ fpc' = "done"

\* if np.any(np.isnan(x)): return 1e6
func_nan ==
    \E xs \in vectors(param_grid) :
        /\ func_called(xs)
        /\ \E i \in 1..Len(xs) : isnan(xs[i])
        /\ result' = [t |-> "score", v |-> Penalty]
        /\ UNCHANGED <<kwargs, evaluated, optvars>>

\* the decode loop raises (outside the try block)
func_decode_raises ==
    \E xs \in vectors(param_grid) :
        /\ func_called(xs)
        /\ \A i \in 1..Len(xs) : ~isnan(xs[i])
        /\ \E i \in 1..Len(xs) : decode_raises(xs[i], param_grid[i])
        /\ result' = [t |-> "raise", v |-> NaNScore]
        /\ UNCHANGED <<kwargs, evaluated, optvars>>

func_try(failed) ==
    \E xs \in vectors(param_grid) :
        /\ func_called(xs)
        /\ \A i \in 1..Len(xs) : ~isnan(xs[i])
        /\ \A i \in 1..Len(xs) : ~decode_raises(xs[i], param_grid[i])
        /\ LET c == decode_all(xs, param_grid) IN
           \E o \in MayDo(c) :
              /\ failed = (o.t = "raise" \/ ~metric_known(metric))
              /\ kwargs' = c
              /\ evaluated' = TRUE
              /\ result' = [t |-> "score", v |-> func_score(o, metric)]
              /\ memo' = Remember(c, o)
        /\ UNCHANGED <<param_config, metric, param_grid, opc>>

\* the try block raises: return 1e6
func_except == func_try(TRUE)

\* return -perf
func_return == func_try(FALSE)

InitFunc ==
    /\ InitOptimizer
    /\ de_x = <<>> /\ kwargs = <<>> /\ evaluated = FALSE
    /\ result = [t |-> "none", v |-> NaNScore]
    /\ fpc = "new"
    /\ IdleBacktest
    /\ IdleGrid
    /\ IdleBayes
    /\ IdleDE /\ IdleSelect /\ IdleStore

NextFunc ==
    \/ Optimizer_init /\ UNCHANGED NotOptimizer
    \/ func_nan /\ UNCHANGED NotFunc
    \/ func_decode_raises /\ UNCHANGED NotFunc
    \/ func_except /\ UNCHANGED NotFunc
    \/ func_return /\ UNCHANGED NotFunc

SpecFunc == InitFunc /\ [][NextFunc]_vars

-----------------------------------------------------------------------------
(* Claims about the objective and the decode rule of optimize_de *)

AllFinite(xs) == \A i \in 1..Len(xs) : xs[i].t = "fin"

\* C7: for an input vector with a non-finite component (NaN, +infinity or
\* -infinity, in any dimension) the objective returns the penalty 1e6 without
\* raising and without attempting an evaluation.
C7_NonFinitePenalty ==
    (fpc = "done" /\ ~AllFinite(de_x))
        => (result = [t |-> "score", v |-> Penalty] /\ ~evaluated)

\* C8: for a finite input vector within the bounds the objective returns the
\* negated metric as a finite float or the penalty 1e6; it never raises and
\* never returns an undefined (NaN) metric as the score.
C8_FiniteScoreOrPenalty ==
    (fpc = "done" /\ AllFinite(de_x))
        => /\ result.t = "score"
           /\ result.v.t = "fin"
           /\ \/ result.v = Penalty
              \/ result.v = negate(OutcomeOf(kwargs).m)

\* the declared domain of one parameter: one of the choices; an integer in
\* [low, high] on the step grid; a real in [low, high]
Conformant(spec, v) ==
    IF spec.has_choices
    THEN \E j \in 1..Len(spec.choices) : PyEq(v, spec.choices[j])
    ELSE IF spec.type = "int"
    THEN /\ v.k = "int"
         /\ 4 * spec.low <= v.q /\ v.q <= 4 * spec.high
         /\ (v.q - 4 * spec.low) % (4 * step_or_1(spec)) = 0
    ELSE /\ v.k = "float" /\ v.s = ""
         /\ 4 * spec.low <= v.q /\ v.q <= 4 * spec.high

\* C9: for every input vector within the bounds, each value of the candidate
\* that optimize_de constructs satisfies its parameter's declared domain.
C9_DecodedConformant ==
    (fpc = "done" /\ AllFinite(de_x) /\ evaluated)
        => \A i \in 1..Len(param_config) : Conformant(param_config[i], kwargs[i])

\* vals.index(v)
index(vals, v) ==
    (CHOOSE j \in 1..Len(vals) :
        PyEq(vals[j], v) /\ \A l \in 1..(j - 1) : ~PyEq(vals[l], v)) - 1

\* the real vector of a candidate: a numeric parameter as its value, a
\* categorical parameter (one declared with choices) as the index of its value
encode(c) ==
    [i \in 1..Len(c) |->
        IF param_config[i].has_choices
        THEN Fin(4 * index(param_config[i].choices, c[i]))
        ELSE Fin(c[i].q)]

\* C10: decoding the encoding of a candidate of the grid gives the candidate
\* back, every parameter with the same value and the same kind.
C10_DecodeEncode ==
    (fpc = "done" /\ evaluated)
        => \A j \in 1..product_size(param_grid) :
              LET c == product_at(param_grid, j) IN
              de_x = encode(c) => kwargs = c

-----------------------------------------------------------------------------
(* Claims about Optimizer.__init__ and the configurations it accepts *)

\* an entry with neither `choices` nor both a supported `type` (integer or
\* real) and `bounds`
InvalidEntry(spec) ==
    /\ ~spec.has_choices
    /\ ~(spec.has_type /\ spec.type \in {"int", "float"} /\ spec.has_bounds)

\* C14: a configuration with an entry that has neither `choices` nor both a
\* supported `type` and `bounds` is rejected when the Optimizer is
\* constructed, so no search ever evaluates a candidate with it
C14_InvalidSpecRejected ==
    (\E i \in 1..Len(param_config) : InvalidEntry(param_config[i]))
        => (opc # "built" /\ memo = {})

\* integer entries with every small pair of bounds and step (0: no `step`
\* key), for the grid that __init__ builds from them
MaxStep == 2
IntConfigs ==
    { << TypeSpec("window", "int", low, high, step, 1) >> :
        low \in 0..MaxHigh, high \in 0..(MaxHigh + 2), step \in 0..MaxStep }

InitIntConfig ==
    /\ param_config \in IntConfigs
    /\ metric \in Metrics
    /\ param_grid = <<>>
    /\ opc = "new"
    /\ memo = {}
    /\ IdleBacktest /\ IdleGrid /\ IdleBayes /\ IdleFunc
    /\ IdleDE /\ IdleSelect /\ IdleStore

NextIntConfig == Optimizer_init /\ UNCHANGED NotOptimizer

SpecIntConfig == InitIntConfig /\ [][NextIntConfig]_vars

\* the grid g starts at low and goes up in strides of st
StartsAtLowInSteps(g, low, st) ==
    /\ g # <<>>
    /\ g[1] = IntV(low)
    /\ \A j \in 1..(Len(g) - 1) :
          g[j + 1].k = "int" /\ g[j + 1].q - g[j].q = 4 * st

\* C15 (as stated): the grid of an integer entry with low <= high and a
\* positive step starts at low, goes up by step, and its last element is high
C15_IntegerGridEndsAtHigh ==
    opc = "built" =>
        \A i \in 1..Len(param_config) :
            LET spec == param_config[i]
                st == IF spec.step = 0 THEN 1 ELSE spec.step
                g == param_grid[i]
            IN  (~spec.has_choices /\ spec.type = "int" /\ spec.low <= spec.high)
                    => /\ StartsAtLowInSteps(g, spec.low, st)
                       /\ g[Len(g)] = IntV(spec.high)

\* C15 (amended): the grid of an integer entry with low <= high and a
\* positive step starts at low, goes up by step, and ends at the largest
\* low + k*step that does not exceed high (high itself when step divides
\* high - low)
C15_IntegerGrid ==
    opc = "built" =>
        \A i \in 1..Len(param_config) :
            LET spec == param_config[i]
                st == IF spec.step = 0 THEN 1 ELSE spec.step
                g == param_grid[i]
            IN  (~spec.has_choices /\ spec.type = "int" /\ spec.low <= spec.high)
                    => /\ StartsAtLowInSteps(g, spec.low, st)
                       /\ g[Len(g)].q <= 4 * spec.high
                       /\ g[Len(g)].q + 4 * st > 4 * spec.high
                       /\ ((spec.high - spec.low) % st = 0
                              => g[Len(g)] = IntV(spec.high))

\* a grid of three values whose last one is below high
C15_Witness ==
    /\ opc = "built"
    /\ Len(param_config) = 1
    /\ param_config[1].step = 2
    /\ Len(param_grid[1]) = 3
    /\ param_grid[1][3].q < 4 * param_config[1].high

-----------------------------------------------------------------------------
(* Optimizer.optimize_de: the search and what it returns *)

\* the number of vectors the minimizer evaluates in a run
MaxEvals == 2

\* Python's < on floats: false when either side is NaN
float_lt(a, b) ==
    /\ a.t # "nan" /\ b.t # "nan"
    /\ \/ a.t = "ninf" /\ b.t # "ninf"
       \/ a.t = "fin" /\ b.t = "inf"
       \/ a.t = "fin" /\ b.t = "fin" /\ a.q < b.q

\* the vectors differential_evolution proposes: every component a finite
\* point of its bounds (at half steps)
RECURSIVE proposals_from(_, _)
proposals_from(grid, i) ==
    IF i > Len(grid) THEN {<<>>}
    ELSE LET b == de_bounds(grid[i])
             rest == proposals_from(grid, i + 1)
         IN  {<<Fin(q)>> \o xs : q \in {r \in b[1]..b[2] : r % 2 = 0},
                                 xs \in rest}

proposals(grid) == proposals_from(grid, 1)

\* _func(x) for a vector whose decode does not raise, given what the
\* decoded candidate did
func_value(xs, o, name) ==
    IF \E i \in 1..Len(xs) : isnan(xs[i]) THEN Penalty
    ELSE func_score(o, name)

\* result.x, result.fun: an evaluated vector that no other evaluated vector
\* is below (one with a NaN value is below nothing and has nothing below it)
minimizers(evals) ==
    {e \in evals : \A f \in evals : ~float_lt(f.fun, e.fun)}

\* returning result.fun in the place of the metric of the re-backtest
final_metric_of_result(o, fun) == fun

\* best_metric = PerformanceAnalyzer(best_eq, best_strat.returns).summary()[metric]
final_metric(o, fun) == o.m

\* if not bounds: the strategy built from the empty candidate is
\* backtested once, outside any try block
de_default(raises) ==
    /\ opc = "built" /\ dpc = "new"
    /\ Len(param_grid) = 0
    /\ \E o \in MayDo(<<>>) :
          /\ raises = (o.t = "raise" \/ ~metric_known(metric))
          /\ memo' = Remember(<<>>, o)
          /\ IF raises
             THEN dpc' = "raised" /\ UNCHANGED <<best_kwargs, best_metric>>
             ELSE /\ best_kwargs' = <<>>
                  /\ best_metric' = o.m
                  /\ dpc' = "returned"
    /\ UNCHANGED <<de_evals, de_result, param_config, metric, param_grid, opc>>

de_default_returns == de_default(FALSE)

de_default_raises == de_default(TRUE)

\* differential_evolution calls _func on one more vector
de_evaluate ==
    /\ opc = "built" /\ dpc = "new"
    /\ Len(param_grid) > 0
    /\ Cardinality(de_evals) < MaxEvals
    /\ \E xs \in proposals(param_grid) :
          /\ \A e \in de_evals : e.x # xs
          /\ \E o \in MayDo(decode_all(xs, param_grid)) :
                /\ de_evals' = de_evals \cup
                      {[x |-> xs, fun |-> func_value(xs, o, metric)]}
                /\ memo' = Remember(decode_all(xs, param_grid), o)
    /\ UNCHANGED <<de_result, best_kwargs, best_metric, dpc,
                   param_config, metric, param_grid, opc>>

\* differential_evolution returns; best_x is decoded and the strategy built
\* from it is backtested again, outside any try block
de_finish(raises) ==
    /\ opc = "built" /\ dpc = "new"
    /\ Len(param_grid) > 0
    /\ \E e \in minimizers(de_evals) :
          LET c == decode_all(e.x, param_grid) IN
          \E o \in MayDo(c) :
             /\ raises = (o.t = "raise" \/ ~metric_known(metric))
             /\ de_result' = [t |-> "result", x |-> e.x, fun |-> e.fun]
             /\ memo' = Remember(c, o)
             /\ IF raises
                THEN dpc' = "raised" /\ UNCHANGED <<best_kwargs, best_metric>>
                ELSE /\ best_kwargs' = c
                     /\ best_metric' = final_metric(o, e.fun)
                     /\ dpc' = "returned"
    /\ UNCHANGED <<de_evals, param_config, metric, param_grid, opc>>

de_return == de_finish(FALSE)

de_final_raises == de_finish(TRUE)

InitDE ==
    /\ InitOptimizer
    /\ de_evals = {}
    /\ de_result = [t |-> "none", x |-> <<>>, fun |-> NaNScore]
    /\ best_kwargs = <<>>
    /\ best_metric = NaNScore
    /\ dpc = "new"
    /\ IdleBacktest /\ IdleGrid /\ IdleBayes /\ IdleFunc
    /\ IdleSelect /\ IdleStore

NextDE ==
    \/ Optimizer_init /\ UNCHANGED NotOptimizer
    \/ de_default_returns /\ UNCHANGED NotDE
    \/ de_default_raises /\ UNCHANGED NotDE
    \/ de_evaluate /\ UNCHANGED NotDE
    \/ de_return /\ UNCHANGED NotDE
    \/ de_final_raises /\ UNCHANGED NotDE

SpecDE == InitDE /\ [][NextDE]_vars

\* C18: when optimize_de returns, best_kwargs is the decode of the
\* minimizer's best vector and best_metric is the metric, not negated, of
\* the strategy built again from exactly best_kwargs; without tunable
\* dimensions the minimizer is not invoked, there is no result object and
\* best_metric is the metric of the strategy built from the empty candidate
C18_DEReturn ==
    dpc = "returned" =>
        /\ Known(best_kwargs)
        /\ OutcomeOf(best_kwargs).t = "ok"
        /\ best_metric = OutcomeOf(best_kwargs).m
        /\ IF Len(param_grid) = 0
           THEN best_kwargs = <<>> /\ de_evals = {} /\ de_result.t = "none"
           ELSE /\ de_result.t = "result"
                /\ \E e \in de_evals : e.x = de_result.x
                /\ best_kwargs = decode_all(de_result.x, param_grid)

\* a search over two vectors returns a positive metric, the negation of the
\* minimizer's value
C18_Witness ==
    /\ dpc = "returned"
    /\ Cardinality(de_evals) = 2
    /\ best_metric = Fin(4)
    /\ de_result.fun = Fin(-4)

-----------------------------------------------------------------------------
(* Optimizer.find_best_strategy *)

\* the number of strategy classes passed in
MaxClasses == 2

\* A strategy class as find_best_strategy meets it: the name of its
\* instances, whether Optimizer(cls) raises for its param_config
\* ("rejected"), or builds a grid from an entry sample_params does not
\* support ("unsupported"), and what the class does for the candidate the
\* search settles on: the backtest or the summary raises, or the summary
\* has value m for the metric
Class(name, config, does, m) ==
    [name |-> name, config |-> config, does |-> does, m |-> m]

StrategyClasses ==
    {Class(name, "rejected", "ok", NaNScore) : name \in {"A", "B"}}
    \cup {Class(name, config, does, NaNScore) :
            name \in {"A", "B"}, config \in {"ok", "unsupported"},
            does \in {"raise_backtest", "raise_summary"}}
    \cup {Class(name, config, "ok", m) :
            name \in {"A", "B"}, config \in {"ok", "unsupported"},
            m \in MetricValues}

Methods == {"bayes", "de", "grid", "random"}

\* opt = Optimizer(cls) raises
optimizer_raises(cls) == cls.config = "rejected"

\* the method names with a branch
known_method(m) == m \in {"bayes", "de", "grid"}

\* the search of a known method raises: optimize_bayesian when
\* sample_params does, optimize_de when its final backtest or
\* summary()[metric] does, optimize_grid when no candidate gave a row or the
\* metric is no column
search_raises(cls, m, name) ==
    CASE m = "bayes" -> cls.config = "unsupported"
      [] m = "de" -> cls.does # "ok" \/ ~metric_known(name)
      [] m = "grid" -> cls.does # "ok" \/ ~metric_known(name)
      [] OTHER -> FALSE

\* d[k] = v
put(d, k, v) == {e \in d : e.k # k} \cup {[k |-> k, v |-> v]}

\* d.keys()
keys(d) == {e.k : e \in d}

\* leaving the loop at the first exception
stop_loop(i, n) == n + 1

\* continue: on to the next class
continue_loop(i, n) == i + 1

\* the method has no branch: warning, continue
select_unknown_method ==
    /\ spc = "loop" /\ si <= Len(strategies)
    /\ ~optimizer_raises(strategies[si])
    /\ ~known_method(method)
    /\ si' = si + 1
    /\ UNCHANGED <<strategies, method, perf_records, equity_map,
                   strategy_obj_map, perf_df, spc, optvars>>

\* Optimizer(cls) or the search raises: warning, continue
select_search_raises ==
    /\ spc = "loop" /\ si <= Len(strategies)
    /\ \/ optimizer_raises(strategies[si])
       \/ known_method(method) /\ search_raises(strategies[si], method, metric)
    /\ si' = continue_loop(si, Len(strategies))
    /\ UNCHANGED <<strategies, method, perf_records, equity_map,
                   strategy_obj_map, perf_df, spc, optvars>>

\* the search returned best_params
searched(cls) ==
    /\ ~optimizer_raises(cls)
    /\ known_method(method)
    /\ ~search_raises(cls, method, metric)

\* cls(best_params) or strat.backtest(data) raises: warning, continue
select_backtest_raises ==
    /\ spc = "loop" /\ si <= Len(strategies)
    /\ searched(strategies[si])
    /\ strategies[si].does = "raise_backtest"
    /\ si' = continue_loop(si, Len(strategies))
    /\ UNCHANGED <<strategies, method, perf_records, equity_map,
                   strategy_obj_map, perf_df, spc, optvars>>

\* the two maps are written, then PerformanceAnalyzer(...).summary() raises:
\* warning, continue
select_summary_raises ==
    /\ spc = "loop" /\ si <= Len(strategies)
    /\ searched(strategies[si])
    /\ strategies[si].does = "raise_summary"
    /\ equity_map' = put(equity_map, strategies[si].name, si)
    /\ strategy_obj_map' = put(strategy_obj_map, strategies[si].name, si)
    /\ si' = continue_loop(si, Len(strategies))
    /\ UNCHANGED <<strategies, method, perf_records, perf_df, spc, optvars>>

\* the try block runs to its end
select_row ==
    /\ spc = "loop" /\ si <= Len(strategies)
    /\ searched(strategies[si])
    /\ strategies[si].does = "ok"
    /\ equity_map' = put(equity_map, strategies[si].name, si)
    /\ strategy_obj_map' = put(strategy_obj_map, strategies[si].name, si)
    /\ perf_records' = Append(perf_records,
          [i |-> si, strategy |-> strategies[si].name, m |-> strategies[si].m])
    /\ si' = si + 1
    /\ UNCHANGED <<strategies, method, perf_df, spc, optvars>>

\* if not perf_records: raise ValueError
select_no_records ==
    /\ spc = "loop" /\ si > Len(strategies)
    /\ perf_records = <<>>
    /\ spc' = "raised"
    /\ UNCHANGED <<strategies, method, si, perf_records, equity_map,
                   strategy_obj_map, perf_df, optvars>>

\* sort_values raises KeyError for a metric that is no column
select_unknown_metric ==
    /\ spc = "loop" /\ si > Len(strategies)
    /\ perf_records # <<>>
    /\ ~metric_known(metric)
    /\ spc' = "raised"
    /\ UNCHANGED <<strategies, method, si, perf_records, equity_map,
                   strategy_obj_map, perf_df, optvars>>

\* return perf_df, equity_map, strategy_obj_map
select_return ==
    /\ spc = "loop" /\ si > Len(strategies)
    /\ perf_records # <<>>
    /\ metric_known(metric)
    /\ perf_df' \in sort_values(perf_records)
    /\ spc' = "returned"
    /\ UNCHANGED <<strategies, method, si, perf_records, equity_map,
                   strategy_obj_map, optvars>>

InitSelect ==
    /\ \E n \in 1..MaxClasses : strategies \in [1..n -> StrategyClasses]
    /\ method \in Methods
    /\ metric \in Metrics
    /\ si = 1
    /\ perf_records = <<>> /\ equity_map = {} /\ strategy_obj_map = {}
    /\ perf_df = <<>>
    /\ spc = "loop"
    /\ param_config = <<>> /\ param_grid = <<>> /\ opc = "idle" /\ memo = {}
    /\ IdleBacktest /\ IdleGrid /\ IdleBayes /\ IdleFunc
    /\ IdleDE /\ IdleStore

NextSelect ==
    \/ select_unknown_method /\ UNCHANGED NotSelect
    \/ select_search_raises /\ UNCHANGED NotSelect
    \/ select_backtest_raises /\ UNCHANGED NotSelect
    \/ select_summary_raises /\ UNCHANGED NotSelect
    \/ select_row /\ UNCHANGED NotSelect
    \/ select_no_records /\ UNCHANGED NotSelect
    \/ select_unknown_metric /\ UNCHANGED NotSelect
    \/ select_return /\ UNCHANGED NotSelect

SpecSelect == InitSelect /\ [][NextSelect]_vars

-----------------------------------------------------------------------------
(* Claims about find_best_strategy *)

\* the class got through the search, the final backtest and the summary
Completes(cls) ==
    /\ ~optimizer_raises(cls)
    /\ known_method(method)
    /\ ~search_raises(cls, method, metric)
    /\ cls.does = "ok"

\* the rows that class i of the input list contributed
RowsOfClass(rows, i) == {r \in 1..Len(rows) : rows[r].i = i}

\* C11: a class whose search, final backtest or summary raises contributes
\* no row and does not stop the loop: every class of the list is processed,
\* each class that completes all three contributes exactly one row, and the
\* table has as many rows as there are such classes
C11_FailedClassSkipped ==
    /\ spc \in {"raised", "returned"} => si = Len(strategies) + 1
    /\ \A i \in 1..Len(strategies) :
          i < si => Cardinality(RowsOfClass(perf_records, i))
                        = IF Completes(strategies[i]) THEN 1 ELSE 0
    /\ spc = "returned" =>
          /\ Len(perf_df)
                = Cardinality({i \in 1..Len(strategies) : Completes(strategies[i])})
          /\ \A i \in 1..Len(strategies) :
                Cardinality(RowsOfClass(perf_df, i))
                    = IF Completes(strategies[i]) THEN 1 ELSE 0

\* a table returned with the row of the second class after the first class
\* raised
C11_Witness ==
    /\ spc = "returned"
    /\ Len(strategies) = 2
    /\ searched(strategies[1]) /\ strategies[1].does = "raise_summary"
    /\ Len(perf_df) = 1
    /\ perf_df[1].i = 2

\* C12: the table returned by find_best_strategy is in descending order of
\* the metric, and classes with equal metric values are in the order of the
\* input list
C12_StableRanking ==
    spc = "returned" =>
        /\ \A r1, r2 \in 1..Len(perf_df) :
              r1 < r2 => ~Before(perf_df[r2], perf_df[r1])
        /\ \A r1, r2 \in 1..Len(perf_df) :
              (r1 < r2 /\ perf_df[r1].m = perf_df[r2].m)
                  => perf_df[r1].i < perf_df[r2].i

\* the strategy names of the rows of the table
RowNames(rows) == {rows[r].strategy : r \in 1..Len(rows)}

\* C19: when find_best_strategy returns, the names of the rows of the table,
\* the keys of the equity map and the keys of the strategy-object map are
\* the same set, each name is in exactly one row, and a skipped class has
\* left no entry in either map
C19_MapsMatchRows ==
    spc = "returned" =>
        /\ RowNames(perf_df) = keys(equity_map)
        /\ RowNames(perf_df) = keys(strategy_obj_map)
        /\ \A r1, r2 \in 1..Len(perf_df) :
              perf_df[r1].strategy = perf_df[r2].strategy => r1 = r2
        /\ \A e \in equity_map \cup strategy_obj_map :
              Completes(strategies[e.v])

\* two classes with different names, the second skipped because its summary
\* raised, and the equity map holds an entry for it
C19_SkippedClassInMap ==
    /\ spc = "returned"
    /\ Len(strategies) = 2
    /\ strategies[1].name # strategies[2].name
    /\ ~Completes(strategies[2])
    /\ strategies[2].name \in keys(equity_map)
    /\ strategies[2].name \notin RowNames(perf_df)

-----------------------------------------------------------------------------
(* optimize_grid and find_best_strategy side by side: when they raise *)

InitFatal == InitGrid \/ InitSelect

NextFatal == NextGrid \/ NextSelect

SpecFatal == InitFatal /\ [][NextFatal]_vars

\* no candidate of the grid was constructed and evaluated without raising
NoCandidateSucceeded ==
    \A j \in 1..product_size(param_grid) :
        OutcomeOf(product_at(param_grid, j)).t = "raise"

\* C13 (as stated): optimize_grid raises exactly when no candidate was
\* constructed and evaluated successfully, find_best_strategy raises exactly
\* when no class produced a row, and neither returns an empty table
C13_FatalExactlyWhenEmpty ==
    /\ gpc = "raised" => NoCandidateSucceeded
    /\ gpc = "returned" => (~NoCandidateSucceeded /\ table # <<>>)
    /\ spc = "raised" => perf_records = <<>>
    /\ spc = "returned" => (perf_records # <<>> /\ perf_df # <<>>)

\* C13 (amended): optimize_grid raises exactly when no candidate was
\* constructed and evaluated successfully or the metric is no column of the
\* table, find_best_strategy raises exactly when no class produced a row or
\* the metric is no column of the table, and neither returns an empty table
C13_FatalWhenEmptyOrUnknownMetric ==
    /\ gpc = "raised" => (NoCandidateSucceeded \/ metric \notin SummaryKeys)
    /\ gpc = "returned" =>
          (~NoCandidateSucceeded /\ metric \in SummaryKeys /\ table # <<>>)
    /\ spc = "raised" => (perf_records = <<>> \/ metric \notin SummaryKeys)
    /\ spc = "returned" =>
          (perf_records # <<>> /\ metric \in SummaryKeys /\ perf_df # <<>>)

\* find_best_strategy raises although a class produced a row
C13_Witness ==
    /\ spc = "raised"
    /\ perf_records # <<>>
    /\ method = "bayes"

-----------------------------------------------------------------------------
(* StrategyManager.save and StrategyManager.load.  A name is a sequence of  *)
(* characters; a strategy object is its name and the parameters it holds.   *)

\* the number of save calls in a run
MaxSaves == 2

StrategyNames ==
    { <<"a", "b">>, <<"a", " ", "b">>, <<"a", "_", "b">>, <<"a", "/", "b">> }

Strategies == [name : StrategyNames, params : {1, 2}]

\* str.replace(old, new) for one-character old and new
replace(str, old, new) ==
    [i \in 1..Len(str) |-> IF str[i] = old THEN new ELSE str[i]]

\* f"{name.replace(' ', '_').replace('/', '_')}.pkl"
fname(name) ==
    replace(replace(name, " ", "_"), "/", "_") \o <<".", "p", "k", "l">>

\* pickle.dump(strategy, f): the bytes written, and pickle.load of them
pickle_dump(strategy) == <<strategy.name, strategy.params>>
pickle_load(bytes) == [name |-> bytes[1], params |-> bytes[2]]

\* save: the file of the strategy's name is written, or overwritten
save(strategy) ==
    /\ Len(saves) < MaxSaves
    /\ files' = put(files, fname(strategy.name), pickle_dump(strategy))
    /\ saves' = Append(saves, strategy)
    /\ UNCHANGED loaded

\* load of a name whose file does not exist raises FileNotFoundError
load_missing(name) ==
    /\ fname(name) \notin keys(files)
    /\ loaded' = [t |-> "FileNotFoundError", name |-> name, at |-> Len(saves)]
    /\ UNCHANGED <<files, saves>>

\* load: what the file of the name holds
load(name) ==
    /\ \E e \in files :
          /\ e.k = fname(name)
          /\ loaded' = [t |-> "strategy", name |-> name, at |-> Len(saves),
                        strat |-> pickle_load(e.v)]
    /\ UNCHANGED <<files, saves>>

manager_save == \E strategy \in Strategies : save(strategy)

manager_load_missing == \E name \in StrategyNames : load_missing(name)

manager_load == \E name \in StrategyNames : load(name)

InitStore ==
    /\ files = {} /\ saves = <<>> /\ loaded = [t |-> "none"]
    /\ IdleBacktest /\ IdleOptimizer /\ IdleGrid /\ IdleBayes /\ IdleFunc
    /\ IdleDE /\ IdleSelect

NextStore ==
    \/ manager_save /\ UNCHANGED NotStore
    \/ manager_load_missing /\ UNCHANGED NotStore
    \/ manager_load /\ UNCHANGED NotStore

SpecStore == InitStore /\ [][NextStore]_vars

\* the saves made before the load, and the last of them under a name
SavedAs(name, n) == {i \in 1..n : saves[i].name = name}
LastSavedAs(name, n) ==
    saves[CHOOSE i \in SavedAs(name, n) : \A j \in SavedAs(name, n) : j <= i]

\* C17: load(name) of a name under which a strategy was saved returns the
\* strategy most recently saved under that very name, whatever was saved
\* under other names before or after it
C17_LoadReturnsLastSaved ==
    (loaded.t # "none" /\ SavedAs(loaded.name, loaded.at) # {})
        => /\ loaded.t = "strategy"
           /\ loaded.strat = LastSavedAs(loaded.name, loaded.at)

-----------------------------------------------------------------------------
(* The three searches side by side: which candidate each calls the best *)

InitSearch == InitGrid \/ InitBayes \/ InitDE

NextSearch == NextGrid \/ NextBayes \/ NextDE

SpecSearch == InitSearch /\ [][NextSearch]_vars

\* the candidate was evaluated without raising and its metric is a finite
\* number
Scored(c) ==
    /\ Known(c)
    /\ OutcomeOf(c).t = "ok"
    /\ metric_known(metric)
    /\ isfinite(OutcomeOf(c).m)

\* no candidate of cs that was evaluated to a finite metric has a higher
\* metric than candidate c, itself evaluated to a finite metric
HighestOf(c, cs) ==
    (\E d \in cs : Scored(d))
        => /\ Scored(c)
           /\ \A d \in cs : Scored(d) => OutcomeOf(d).m.q <= OutcomeOf(c).m.q

\* C20: for every metric name, the best candidate of optimize_grid (row 0),
\* of optimize_bayesian and of optimize_de is one with the highest metric
\* among the candidates the search evaluated successfully, the direction in
\* which find_best_strategy ranks
C20_SearchesMaximize ==
    /\ gpc = "returned" =>
          HighestOf(table[1].params,
                    {table[r].params : r \in 1..Len(table)})
    /\ bpc = "returned" =>
          HighestOf(trials[best].params,
                    {trials[j].params : j \in 1..Len(trials)})
    /\ (dpc = "returned" /\ Len(param_grid) > 0) =>
          HighestOf(best_kwargs,
                    {decode_all(e.x, param_grid) : e \in de_evals})

\* optimize_bayesian returns the lower of two finite scores
C20_BayesReturnsLowest ==
    /\ bpc = "returned"
    /\ Len(trials) = 2
    /\ Scored(trials[1].params) /\ Scored(trials[2].params)
    /\ \E j \in 1..2 :
          OutcomeOf(trials[best].params).m.q < OutcomeOf(trials[j].params).m.q

=============================================================================
